---- MODULE Spec2Model ----
(* Model of the iVAE training driver, main.py: command line, setup,        *)
(* the nested while/for training loop, periodic logging, learning-rate     *)
(* scheduling, checkpointing and the final save.                           *)
EXTENDS Integers, Sequences, FiniteSets, TLC

\* ---------------------------------------------------------------- bounds
MaxLen == 3          \* largest loader length len(train_loader)
MaxEpochs == 2       \* largest --epochs
MaxIterArg == 6      \* largest --max-iter
MaxLogFreq == 2      \* largest --log-freq
MaxElbo == 2         \* elbo values returned by model.elbo are 1..MaxElbo

\* ------------------------------------------------------------- constants
None == -1                       \* Python None for an absent integer / file
MnistFile == "data/mnist.npz"
OtherFile == "data/tcl.npz"
DefaultFile == "data/default.npz"
NoFile == "None"
CkptParts == 5
PlotsPerPass == 2

VARIABLES cli, args, loaderLen, pc, device, loaderKind, dataFile, modelAnneal,
          it, c, idx, passes, completed, evs, elbo, nStep,
          logCur, logLast, nLog, tbWrites, schedArg, nSched, nCkpt,
          writerClosed, saved, err

vars == <<cli, args, loaderLen, pc, device, loaderKind, dataFile, modelAnneal,
          it, c, idx, passes, completed, evs, elbo, nStep,
          logCur, logLast, nLog, tbWrites, schedArg, nSched, nCkpt,
          writerClosed, saved, err>>

setupVars == <<device, loaderKind, dataFile, modelAnneal>>
loopVars == <<it, c, idx, passes, completed, evs, elbo, nStep>>
logVars == <<logCur, logLast, nLog, tbWrites, schedArg, nSched, nCkpt>>
endVars == <<writerClosed, saved>>

\* the command lines argparse accepts (lines 26-48), within the bounds
CmdLines ==
    [file : {NoFile, OtherFile},
     epochs : 0..MaxEpochs,
     max_iter : {None} \cup (0..MaxIterArg),
     cuda : BOOLEAN, preload : BOOLEAN, anneal : BOOLEAN,
     no_log : BOOLEAN,
     log_freq : 0..MaxLogFreq]

\* Logger (lib.utils): per key, the running <<sum, count>> of the values
\* since the last log() and the <<sum, count>> recorded by the last log()
EmptyAvg == <<0, 0>>
LoggerUpdate(cur, key, val) ==
    [cur EXCEPT ![key] = <<cur[key][1] + val, cur[key][2] + 1>>]
LoggerGetLast(last, key) == last[key]

\* the state after parser.parse_args() at line 48
Init ==
    /\ cli \in CmdLines
    /\ args = cli
    /\ loaderLen \in 1..MaxLen
    /\ pc = "override"
    /\ device = "unset" /\ loaderKind = "unset" /\ dataFile = "unset"
    /\ modelAnneal = FALSE
    /\ it = 0 /\ c = 0 /\ idx = 0 /\ passes = 0 /\ completed = 0
    /\ evs = <<>> /\ elbo = 0 /\ nStep = 0
    /\ logCur = [elbo |-> EmptyAvg, perf |-> EmptyAvg]
    /\ logLast = [elbo |-> EmptyAvg, perf |-> EmptyAvg]
    /\ nLog = 0 /\ tbWrites = <<>> /\ schedArg = EmptyAvg /\ nSched = 0 /\ nCkpt = 0
    /\ writerClosed = FALSE
    /\ saved = [metadata |-> 0, json |-> 0, npz |-> 0]
    /\ err = "none"

\* lines 50-53: the parsed values are overwritten
Override ==
    /\ pc = "override"
    /\ args' = [args EXCEPT !.cuda = TRUE, !.anneal = TRUE, !.preload = TRUE,
                            !.file = MnistFile]
    /\ pc' = "setup"
    /\ UNCHANGED <<cli, loaderLen, setupVars, loopVars, logVars, endVars, err>>

\* lines 67-89: dataset file, device, loader, default of max_iter
Setup ==
    /\ pc = "setup"
    /\ LET f == IF args.file = NoFile THEN DefaultFile ELSE args.file
           m == IF args.max_iter = None THEN loaderLen * args.epochs
                                        ELSE args.max_iter
       IN /\ args' = [args EXCEPT !.file = f, !.max_iter = m]
          /\ dataFile' = f
    /\ device' = IF args.cuda THEN "cuda" ELSE "cpu"
    /\ loaderKind' = IF ~args.preload THEN "DataLoader" ELSE "DataLoaderGPU"
    /\ pc' = "build"
    /\ UNCHANGED <<cli, loaderLen, modelAnneal, loopVars, logVars, endVars, err>>

\* lines 92-117: model, optimizer, scheduler, loggers, it = 0, c = 0
Build ==
    /\ pc = "build"
    /\ modelAnneal' = args.anneal
    /\ it' = 0 /\ c' = 0
    /\ pc' = "while"
    /\ UNCHANGED <<cli, args, loaderLen, device, loaderKind, dataFile,
                   idx, passes, completed, evs, elbo, nStep,
                   logVars, endVars, err>>

\* line 118: while it < args.max_iter
WhileTest ==
    /\ pc = "while"
    /\ IF it < args.max_iter
          THEN pc' = "for" /\ idx' = 0
          ELSE pc' = "close" /\ idx' = idx
    /\ UNCHANGED <<cli, args, loaderLen, setupVars, it, c, passes, completed,
                   evs, elbo, nStep, logVars, endVars, err>>

\* lines 120-121: the loader yields the next batch and it += 1, or the
\* loader is exhausted and the for loop ends
ForNext ==
    /\ pc = "for"
    /\ IF idx < loaderLen
          THEN /\ idx' = idx + 1
               /\ it' = it + 1
               /\ evs' = <<"inc">>
               /\ pc' = "anneal"
          ELSE /\ pc' = "plot"
               /\ UNCHANGED <<idx, it, evs>>
    /\ UNCHANGED <<cli, args, loaderLen, setupVars, c, passes, completed,
                   elbo, nStep, logVars, endVars, err>>

\* one call of the loop body that only moves on: records the event
Call(from, ev, to) ==
    /\ pc = from
    /\ evs' = Append(evs, ev)
    /\ pc' = to

\* lines 122-123: model.anneal(args.N, args.max_iter, it)
Anneal ==
    /\ Call("anneal", "anneal", "zero_grad")
    /\ UNCHANGED <<cli, args, loaderLen, setupVars, it, c, idx, passes,
                   completed, elbo, nStep, logVars, endVars, err>>

\* lines 124-128: optimizer.zero_grad()
ZeroGrad ==
    /\ Call("zero_grad", "zero_grad", "elbo")
    /\ UNCHANGED <<cli, args, loaderLen, setupVars, it, c, idx, passes,
                   completed, elbo, nStep, logVars, endVars, err>>

\* line 131: elbo, z_est, x_recon = model.elbo(x, u)
Forward ==
    /\ Call("elbo", "elbo", "backward")
    /\ elbo' \in 1..MaxElbo
    /\ UNCHANGED <<cli, args, loaderLen, setupVars, it, c, idx, passes,
                   completed, nStep, logVars, endVars, err>>

\* line 132: elbo.mul(-1).backward()
Backward ==
    /\ Call("backward", "backward", "step")
    /\ UNCHANGED <<cli, args, loaderLen, setupVars, it, c, idx, passes,
                   completed, elbo, nStep, logVars, endVars, err>>

\* OptStep with the optimizer step left out
OptStepMissing ==
    /\ Call("step", "step", "upd_elbo")
    /\ nStep' = nStep
    /\ UNCHANGED <<cli, args, loaderLen, setupVars, it, c, idx, passes,
                   completed, elbo, logVars, endVars, err>>

\* line 137: optimizer.step()
OptStep ==
    /\ Call("step", "step", "upd_elbo")
    /\ nStep' = nStep + 1
    /\ UNCHANGED <<cli, args, loaderLen, setupVars, it, c, idx, passes,
                   completed, elbo, logVars, endVars, err>>

\* line 138: logger.update('elbo', -elbo.item())
UpdateElbo ==
    /\ Call("upd_elbo", "update_elbo", "upd_perf")
    /\ logCur' = LoggerUpdate(logCur, "elbo", 0 - elbo)
    /\ UNCHANGED <<cli, args, loaderLen, setupVars, it, c, idx, passes,
                   completed, elbo, nStep, logLast, nLog, tbWrites, schedArg,
                   nSched, nCkpt, endVars, err>>

\* lines 141-145: perf (mcc or MSELoss) and logger.update('perf', perf.item())
UpdatePerf ==
    /\ Call("upd_perf", "update_perf", "logtest")
    /\ \E perf \in 0..1 : logCur' = LoggerUpdate(logCur, "perf", perf)
    /\ UNCHANGED <<cli, args, loaderLen, setupVars, it, c, idx, passes,
                   completed, elbo, nStep, logLast, nLog, tbWrites, schedArg,
                   nSched, nCkpt, endVars, err>>

\* LogDue counting the iterations from zero
LogDueZeroBased(i, freq) == (i - 1) % freq = 0

\* the condition of line 147
LogDue(i, freq) == i % freq = 0

\* line 147: if it % args.log_freq == 0 (ZeroDivisionError for log_freq 0)
LogTest ==
    /\ pc = "logtest"
    /\ IF args.log_freq = 0
          THEN pc' = "error" /\ err' = "ZeroDivisionError"
          ELSE /\ pc' = IF LogDue(it, args.log_freq) THEN "log" ELSE "ckpt"
               /\ err' = err
    /\ UNCHANGED <<cli, args, loaderLen, setupVars, loopVars, logVars, endVars>>

\* line 148: logger.log()
Log ==
    /\ Call("log", "log", "tb_perf")
    /\ logLast' = logCur
    /\ logCur' = [elbo |-> EmptyAvg, perf |-> EmptyAvg]
    /\ nLog' = nLog + 1
    /\ UNCHANGED <<cli, args, loaderLen, setupVars, it, c, idx, passes,
                   completed, elbo, nStep, tbWrites, schedArg, nSched, nCkpt,
                   endVars, err>>

\* line 149: writer.add_scalar('data/performance', logger.get_last('perf'), it)
TbPerf ==
    /\ Call("tb_perf", "tb_perf", "tb_elbo")
    /\ tbWrites' = <<[tag |-> "data/performance",
                      val |-> LoggerGetLast(logLast, "perf"), step |-> it]>>
    /\ UNCHANGED <<cli, args, loaderLen, setupVars, it, c, idx, passes,
                   completed, elbo, nStep, logCur, logLast, nLog, schedArg,
                   nSched, nCkpt, endVars, err>>

\* line 150: writer.add_scalar('data/elbo', logger.get_last('elbo'), it)
TbElbo ==
    /\ Call("tb_elbo", "tb_elbo", "sched")
    /\ tbWrites' = Append(tbWrites,
                          [tag |-> "data/elbo",
                           val |-> LoggerGetLast(logLast, "elbo"), step |-> it])
    /\ UNCHANGED <<cli, args, loaderLen, setupVars, it, c, idx, passes,
                   completed, elbo, nStep, logCur, logLast, nLog, schedArg,
                   nSched, nCkpt, endVars, err>>

\* line 151: scheduler.step(logger.get_last('elbo'))
SchedStep ==
    /\ Call("sched", "sched", "ckpt")
    /\ schedArg' = LoggerGetLast(logLast, "elbo")
    /\ nSched' = nSched + 1
    /\ UNCHANGED <<cli, args, loaderLen, setupVars, it, c, idx, passes,
                   completed, elbo, nStep, logCur, logLast, nLog, tbWrites,
                   nCkpt, endVars, err>>

\* int(args.max_iter / 5) for a max_iter >= 0
CkptEvery(m) == m \div CkptParts

\* lines 153-155: if it % int(args.max_iter / 5) == 0 and not args.no_log
\* (ZeroDivisionError when int(args.max_iter / 5) is 0); the body ends here
Ckpt ==
    /\ pc = "ckpt"
    /\ IF CkptEvery(args.max_iter) = 0
          THEN /\ pc' = "error" /\ err' = "ZeroDivisionError"
               /\ UNCHANGED <<nCkpt, completed, evs>>
          ELSE /\ IF it % CkptEvery(args.max_iter) = 0 /\ ~args.no_log
                     THEN nCkpt' = nCkpt + 1 /\ evs' = Append(evs, "checkpoint")
                     ELSE nCkpt' = nCkpt /\ evs' = evs
               /\ completed' = completed + 1
               /\ pc' = "for"
               /\ err' = err
    /\ UNCHANGED <<cli, args, loaderLen, setupVars, it, c, idx, passes,
                   elbo, nStep, logCur, logLast, nLog, tbWrites, schedArg,
                   nSched, endVars>>

\* lines 157-207: the sample and reconstruction grids of the mnist file,
\* then the epoch summary
EndPass ==
    /\ pc = "plot"
    /\ c' = IF args.file = MnistFile THEN c + PlotsPerPass ELSE c
    /\ passes' = passes + 1
    /\ pc' = "while"
    /\ UNCHANGED <<cli, args, loaderLen, setupVars, it, idx, completed, evs,
                   elbo, nStep, logVars, endVars, err>>

\* lines 209-212: writer.close()
Close ==
    /\ pc = "close"
    /\ writerClosed' = TRUE
    /\ pc' = "final"
    /\ UNCHANGED <<cli, args, loaderLen, setupVars, loopVars, logVars, saved, err>>

\* lines 213-218: if not args.no_log: add_metadata, save_to_json, save_to_npz
FinalSave ==
    /\ pc = "final"
    /\ saved' = IF ~args.no_log
                   THEN [metadata |-> saved.metadata + 1,
                         json |-> saved.json + 1, npz |-> saved.npz + 1]
                   ELSE saved
    /\ pc' = "done"
    /\ UNCHANGED <<cli, args, loaderLen, setupVars, loopVars, logVars,
                   writerClosed, err>>

\* the positions inside the training loop, lines 118-207
LoopPcs == {"while", "for", "anneal", "zero_grad", "elbo", "backward", "step",
            "upd_elbo", "upd_perf", "logtest", "log", "tb_perf", "tb_elbo",
            "sched", "ckpt", "plot"}

\* Raise with the exception caught and the loop going on to the next batch
RaiseSwallowed ==
    /\ pc \in LoopPcs \ {"while", "for", "logtest"}
    /\ pc' = "for"
    /\ err' = "raised"
    /\ UNCHANGED <<cli, args, loaderLen, setupVars, loopVars, logVars, endVars>>

\* a call inside the training loop raises: no try/except in lines 118-207,
\* the exception ends the script
Raise ==
    /\ pc \in LoopPcs \ {"while", "for", "logtest"}
    /\ pc' = "error"
    /\ err' = "raised"
    /\ UNCHANGED <<cli, args, loaderLen, setupVars, loopVars, logVars, endVars>>

Next ==
    \/ Override \/ Setup \/ Build
    \/ WhileTest \/ ForNext
    \/ Anneal \/ ZeroGrad \/ Forward \/ Backward \/ OptStep
    \/ UpdateElbo \/ UpdatePerf
    \/ LogTest \/ Log \/ TbPerf \/ TbElbo \/ SchedStep
    \/ Ckpt \/ EndPass \/ Close \/ FinalSave

\* the script with every framework call returning
Spec == Init /\ [][Next]_vars

NextFault == Next \/ Raise

\* the script with calls of the loop that may raise
FaultSpec == Init /\ [][NextFault]_vars

\* ------------------------------------------------------------ properties
Range(s) == {s[i] : i \in DOMAIN s}
Count(s, e) == Cardinality({i \in DOMAIN s : s[i] = e})
Min(a, b) == IF a < b THEN a ELSE b
IsPrefix(s, t) == Len(s) <= Len(t) /\ s = SubSeq(t, 1, Len(s))
BodyOrder == <<"inc", "anneal", "zero_grad", "elbo", "backward", "step",
               "update_elbo", "update_perf">>
LogOrder == <<"log", "tb_perf", "tb_elbo", "sched">>
\* the events of the current iteration without a trailing checkpoint
Core(s) == IF s # <<>> /\ s[Len(s)] = "checkpoint" THEN SubSeq(s, 1, Len(s) - 1)
                                                  ELSE s
Configured == pc \notin {"override", "setup", "build"}
NothingSaved == saved = [metadata |-> 0, json |-> 0, npz |-> 0]

\* C1: once max_iter is set, the iteration counter never exceeds it:
\* it <= max_iter in every state of the run.
C1_ItAtMostMaxIter == Configured => it <= args.max_iter

\* C2: every batch the loader yields gets exactly one optimizer step, the
\* calls of an iteration come in the fixed order inc, anneal, zero_grad, elbo,
\* backward, step, update elbo, update perf, and the number of optimizer steps
\* equals the number of completed iterations (plus the step of the iteration
\* under way, once taken); it counts the batches yielded, none twice, none
\* skipped.
C2_OneStepPerBatch ==
    /\ it \in {completed, completed + 1}
    /\ Count(evs, "step") <= 1
    /\ nStep = IF it > completed THEN completed + Count(evs, "step") ELSE completed
    /\ IsPrefix(SubSeq(evs, 1, Min(Len(evs), Len(BodyOrder))), BodyOrder)
    /\ (it = completed /\ it > 0) => IsPrefix(BodyOrder, evs)
    /\ pc \in LoopPcs \ {"while"} => it = passes * loaderLen + idx
    /\ pc \in {"while", "close", "final", "done"} => it = passes * loaderLen

C2_TwoBatchesStepped == pc = "for" /\ completed = 2 /\ nStep = 2 /\ idx = 2

C4_NoLogNothingLogged ==
    (Configured /\ args.no_log) =>
        nLog = 0 /\ tbWrites = <<>> /\ nCkpt = 0 /\ NothingSaved

\* C5: without --max-iter and with a loader of L >= 1 batches (and a logging
\* frequency >= 1), max_iter is L * epochs and the loop ends normally after
\* exactly `epochs` passes with it = L * epochs.
C5_EpochsPassesThenExit ==
    (cli.max_iter = None /\ cli.log_freq >= 1) =>
        /\ Configured => args.max_iter = loaderLen * cli.epochs
        /\ pc # "error"
        /\ pc \in {"close", "final", "done"} =>
              it = loaderLen * cli.epochs /\ passes = cli.epochs

\* C6: the device, the loading path and the model's annealing follow the
\* flags -c, -p and -a of the command line (False when absent), and the data
\* file used is the one given by -f.
C6_FlagsConfigureRun ==
    Configured =>
        /\ args.cuda = cli.cuda /\ args.preload = cli.preload
        /\ args.anneal = cli.anneal
        /\ device = IF cli.cuda THEN "cuda" ELSE "cpu"
        /\ loaderKind = IF cli.preload THEN "DataLoaderGPU" ELSE "DataLoader"
        /\ modelAnneal = cli.anneal
        /\ cli.file # NoFile => dataFile = cli.file

\* C7: an exception raised inside the training loop ends the run in an error
\* state: nothing runs after it (no retry of the batch), the tensorboard
\* writer is not closed and no log is saved; add_metadata, save_to_json and
\* save_to_npz run only after the loop has exited normally, at most once each,
\* and only when no_log is false.
C7_NoRecoveryInv ==
    /\ err # "none" => pc = "error" /\ ~writerClosed /\ NothingSaved
    /\ \A k \in {"metadata", "json", "npz"} : saved[k] = saved.json /\ saved[k] <= 1
    /\ ~NothingSaved => /\ pc = "done" /\ ~args.no_log /\ writerClosed
                        /\ it >= args.max_iter /\ it = completed
C7_NoRecovery ==
    /\ []C7_NoRecoveryInv
    /\ [][pc = "error" => UNCHANGED vars]_vars
    /\ [][saved' # saved => pc = "final" /\ pc' = "done"]_vars

C7_RaisedAfterBatches ==
    pc = "error" /\ err = "raised" /\ completed = 2 /\ nStep = 3 /\ nLog >= 1

====
